---- MODULE Spec2Model ----
(***************************************************************************)
(* Slab allocator of slab_allocator/src/lib.rs: Slab (one 4096-byte block  *)
(* cut into equal slots, intrusive free list), SlabAllocator (16 optional  *)
(* slabs of one object size) and SlabCache (three allocators, 64/256/512). *)
(*                                                                         *)
(* Addresses are integers, NULL (0) is the None of Option<NonNull<_>>.     *)
(* The heap maps the address of every written FreeNode to its next field.  *)
(***************************************************************************)
EXTENDS Integers, Sequences, FiniteSets, TLC

VARIABLES
    word,       \* size_of/align_of::<usize>() of the build target, in bytes
    provider,   \* the raw memory provider (alloc/dealloc of the alloc crate)
    blocks,     \* base addresses reserved from the provider and not released
    heap,       \* address -> next field of the FreeNode written there
    slab,       \* a Slab owned directly by the caller (Option<Slab>)
    allocator,  \* a SlabAllocator owned directly by the caller
    cache,      \* a SlabCache
    held,       \* pointers the caller obtained and has not released, with their owner
    live,       \* number of pointers handed out and not released since
    released,   \* pointers given back to the Slab and not handed out again, latest first
    budget,     \* calls the driving program has left (deep specifications only)
    op,         \* the last call made
    ret         \* what the last call returned (NULL for None and for (), 0/1 for bool)

vars == <<word, provider, blocks, heap, slab, allocator, cache, held, live,
          released, budget, op, ret>>

\* ---------------------------------------------------------------- constants

SLAB_SIZE == 4096
MAX_OBJECT_SIZE == 512
NUM_SLABS == 16
SMALL_SIZE == 64
MEDIUM_SIZE == 256
LARGE_SIZE == 512

NULL == 0

\* Pointer widths of the targets the crate builds for (no_std, 32- and 64-bit).
WordSizes == {4, 8}

\* ---------------------------------------------------------------- bounds

MaxHeld == 2        \* pointers a caller holds at once in the bounded specifications
MaxRefusals == 1    \* refusals of the provider before it grants, within one call
MaxSize == 520      \* largest object size asked of Slab::new in SpecNew
MaxFrees == 2       \* releases the driving program of a deep specification makes

\* ---------------------------------------------------------------- helpers

Max(a, b) == IF a >= b THEN a ELSE b

SetMin(S) == CHOOSE x \in S : \A y \in S : x <= y

next_multiple_of(x, a) == ((x + a - 1) \div a) * a

\* ---------------------------------------------------------------- provider

\* The bases the provider can hand out for a reservation of SLAB_SIZE bytes:
\* those of its arena whose block meets no block still reserved.
FreeBases(p, bs) ==
    {b \in p.arena : \A r \in bs : b + SLAB_SIZE <= r \/ r + SLAB_SIZE <= b}

\* The answers alloc(layout) may give: a base, or null when it refuses.
Grants(p, bs) ==
    LET free == FreeBases(p, bs)
        bases == IF p.lowest /\ free # {} THEN {SetMin(free)} ELSE free
    IN  bases \cup (IF ~p.reliable \/ bases = {} THEN {NULL} ELSE {})

\* How many requests of one call the provider may refuse before it grants.
Refusals(p, bs) == IF NULL \in Grants(p, bs) THEN 0..MaxRefusals ELSE {0}

\* What the provider may do during one call that asks it for memory: <<k, grant>>,
\* it refuses the first k reservations asked of it and answers grant to the
\* next (null: it refuses them all). A call that asks for none has one outcome.
Answers(p, bs, asked) ==
    IF ~asked THEN {<<0, NULL>>}
    ELSE LET G == Grants(p, bs)
         IN  {a \in {<<0, NULL>>} : NULL \in G} \cup (Refusals(p, bs) \X (G \ {NULL}))

\* Layout::from_size_align(size, align)
Layout(size, align) == [size |-> size, align |-> align]

\* The layout allocate_memory(size) reserves with: aligned as a usize is.
allocate_memory_layout(size, w) == Layout(size, w)

\* dealloc(ptr, layout) on the blocks bs still reserved, all of them reserved by
\* allocate_memory(SLAB_SIZE): the blocks still reserved afterwards. With a
\* pointer that is no reserved block or a layout other than the one the block
\* was reserved with the behaviour is undefined: the block may be released or
\* stay reserved.
dealloc(bs, ptr, layout, w) ==
    IF ptr \in bs /\ layout = allocate_memory_layout(SLAB_SIZE, w)
    THEN {bs \ {ptr}}
    ELSE {bs, bs \ {ptr}}

\* ---------------------------------------------------------------- Slab

None == [memory |-> NULL, free_list |-> NULL, object_size |-> 0,
         capacity |-> 0, allocated |-> 0]

\* align_size that rounds up to the alignment of a FreeNode only.
align_size_node_aligned(size, w) ==
    LET align == w
        node_size == w
    IN  next_multiple_of(Max(size, node_size), align)

align_size(size, w) ==
    LET align == Max(w, 8)
        node_size == w
    IN  next_multiple_of(Max(size, node_size), align)

\* init_free_list with the loop running forward, from slot 0 up: the head is
\* the last slot and every next the slot below.
init_free_list_forward(s, h) ==
    LET node_ptr(i) == s.memory + i * s.object_size
        last == s.capacity - 1
        written == [a \in {node_ptr(i) : i \in 0..last} |->
                       IF a = node_ptr(0) THEN NULL ELSE a - s.object_size]
    IN  [slab |-> [s EXCEPT !.free_list = IF s.capacity = 0 THEN NULL ELSE node_ptr(last)],
         heap |-> written @@ h]

\* init_free_list: the loop visits the slots i = capacity-1 down to 0, writes
\* node.next = prev (the slot visited before, i+1; None for the first one
\* visited) and leaves prev, the last slot visited, as the head.
init_free_list(s, h) ==
    LET node_ptr(i) == s.memory + i * s.object_size
        last == s.capacity - 1
        written == [a \in {node_ptr(i) : i \in 0..last} |->
                       IF a = node_ptr(last) THEN NULL ELSE a + s.object_size]
    IN  [slab |-> [s EXCEPT !.free_list = IF s.capacity = 0 THEN NULL ELSE node_ptr(0)],
         heap |-> written @@ h]

\* Slab::new that sizes the slab by the requested size, not the aligned one.
Slab_new_unaligned_capacity(object_size, grant, h, w) ==
    IF object_size = 0 \/ object_size > MAX_OBJECT_SIZE
    THEN [slab |-> None, heap |-> h, asked |-> FALSE]
    ELSE LET aligned_size == align_size(object_size, w)
             capacity == SLAB_SIZE \div object_size
         IN  IF grant = NULL THEN [slab |-> None, heap |-> h, asked |-> TRUE]
             ELSE LET r == init_free_list(
                               [memory |-> grant, free_list |-> NULL,
                                object_size |-> aligned_size,
                                capacity |-> capacity, allocated |-> 0], h)
                  IN  [slab |-> r.slab, heap |-> r.heap, asked |-> TRUE]

\* Slab::new(object_size) when the provider answers `grant` to allocate_memory.
\* asked: whether the provider was asked at all.
Slab_new(object_size, grant, h, w) ==
    IF object_size = 0 \/ object_size > MAX_OBJECT_SIZE
    THEN [slab |-> None, heap |-> h, asked |-> FALSE]
    ELSE LET aligned_size == align_size(object_size, w)
             capacity == SLAB_SIZE \div aligned_size
         IN  IF capacity = 0 THEN [slab |-> None, heap |-> h, asked |-> FALSE]
             ELSE IF grant = NULL THEN [slab |-> None, heap |-> h, asked |-> TRUE]
             ELSE LET r == init_free_list(
                               [memory |-> grant, free_list |-> NULL,
                                object_size |-> aligned_size,
                                capacity |-> capacity, allocated |-> 0], h)
                  IN  [slab |-> r.slab, heap |-> r.heap, asked |-> TRUE]

\* Slab::allocate that hands out the head without unlinking it.
Slab_allocate_keeps_head(s, h) ==
    IF s.free_list = NULL THEN [ret |-> NULL, slab |-> s]
    ELSE [ret |-> s.free_list,
          slab |-> [s EXCEPT !.allocated = s.allocated + 1]]

\* Slab::allocate that counts the slot before it looks at the free list.
Slab_allocate_counts_first(s, h) ==
    IF s.free_list = NULL
    THEN [ret |-> NULL, slab |-> [s EXCEPT !.allocated = s.allocated + 1]]
    ELSE [ret |-> s.free_list,
          slab |-> [s EXCEPT !.free_list = h[s.free_list],
                             !.allocated = s.allocated + 1]]

Slab_allocate(s, h) ==
    IF s.free_list = NULL THEN [ret |-> NULL, slab |-> s]
    ELSE [ret |-> s.free_list,
          slab |-> [s EXCEPT !.free_list = h[s.free_list],
                             !.allocated = s.allocated + 1]]

\* Slab::deallocate that links the slot but leaves the old head in place.
Slab_deallocate_keeps_head(s, h, ptr) ==
    [slab |-> [s EXCEPT !.allocated = Max(s.allocated - 1, 0)],
     heap |-> (ptr :> s.free_list) @@ h]

\* Slab::deallocate that decrements the count without saturating.
Slab_deallocate_unchecked_count(s, h, ptr) ==
    [slab |-> [s EXCEPT !.free_list = ptr,
                        !.allocated = s.allocated - 1],
     heap |-> (ptr :> s.free_list) @@ h]

\* Slab::deallocate that forgets to count the slot back.
Slab_deallocate_no_count(s, h, ptr) ==
    [slab |-> [s EXCEPT !.free_list = ptr],
     heap |-> (ptr :> s.free_list) @@ h]

Slab_deallocate(s, h, ptr) ==
    [slab |-> [s EXCEPT !.free_list = ptr,
                        !.allocated = Max(s.allocated - 1, 0)],
     heap |-> (ptr :> s.free_list) @@ h]

is_full(s) == s.allocated = s.capacity

is_empty(s) == s.allocated = 0

\* Slab::contains with the end of the block included.
contains_end_inclusive(s, ptr) ==
    LET addr == ptr
        base == s.memory
        end == base + SLAB_SIZE
    IN  addr >= base /\ addr <= end

contains(s, ptr) ==
    LET addr == ptr
        base == s.memory
        end == base + SLAB_SIZE
    IN  addr >= base /\ addr < end

\* Drop for Slab: the block goes back to the provider, its words are gone.
Slab_drop(s, h) ==
    [a \in {x \in DOMAIN h : ~contains(s, x)} |-> h[a]]

\* Drop for Slab that always describes the block as 8-aligned.
drop_layout_align8(w) == Layout(SLAB_SIZE, 8)

\* The layout Drop for Slab hands to dealloc.
drop_layout(w) == Layout(SLAB_SIZE, w)

\* Drop for Slab, at the provider: the blocks that may be reserved afterwards.
Slab_drop_dealloc(s, bs, w) == dealloc(bs, s.memory, drop_layout(w), w)

\* ---------------------------------------------------------------- SlabAllocator

SlabAllocator_new(object_size) ==
    [slabs |-> [i \in 0..(NUM_SLABS - 1) |-> None], object_size |-> object_size]

\* The slots 0..15 in the order the loops visit them.
Slots == 0..(NUM_SLABS - 1)

\* The slots of allocator a that hold a slab.
Occupied(a) == {i \in Slots : a.slabs[i] # None}

\* The first loop taking the last usable slab instead of the first.
pass1_last_fit(a, h) ==
    LET usable == {i \in Slots : /\ a.slabs[i] # None
                                 /\ ~is_full(a.slabs[i])
                                 /\ Slab_allocate(a.slabs[i], h).ret # NULL}
    IN  IF usable = {} THEN [ret |-> NULL, allocator |-> a]
        ELSE LET i == CHOOSE x \in usable : \A y \in usable : x >= y
                 r == Slab_allocate(a.slabs[i], h)
             IN  [ret |-> r.ret, allocator |-> [a EXCEPT !.slabs[i] = r.slab]]

\* First loop of SlabAllocator::allocate: the first slot, in slot order, that
\* holds a slab which is not full and whose allocate() yields a pointer.
pass1(a, h) ==
    LET usable == {i \in Slots : /\ a.slabs[i] # None
                                 /\ ~is_full(a.slabs[i])
                                 /\ Slab_allocate(a.slabs[i], h).ret # NULL}
    IN  IF usable = {} THEN [ret |-> NULL, allocator |-> a]
        ELSE LET i == SetMin(usable)
                 r == Slab_allocate(a.slabs[i], h)
             IN  [ret |-> r.ret, allocator |-> [a EXCEPT !.slabs[i] = r.slab]]

\* Second loop of SlabAllocator::allocate: every empty slot, in slot order, is
\* assigned Slab::new(object_size) until one comes out Some, which serves the
\* request. The provider refuses the first k reservations asked of it and
\* answers `grant` to the next: the slab goes to the empty slot number k (from
\* 0), the empty slots before it are assigned None again.
pass2(a, h, k, grant, w) ==
    LET empty == {i \in Slots : a.slabs[i] = None}
        served == {i \in empty : Cardinality({j \in empty : j < i}) = k}
        n == Slab_new(a.object_size, grant, h, w)
        r == Slab_allocate(n.slab, n.heap)
    IN  IF n.slab = None \/ served = {}
        THEN [ret |-> NULL, allocator |-> a, heap |-> h, new |-> NULL,
              asked |-> n.asked /\ empty # {}]
        ELSE [ret |-> r.ret,
              allocator |-> [a EXCEPT !.slabs[SetMin(served)] = r.slab],
              heap |-> n.heap, new |-> n.slab.memory, asked |-> TRUE]

\* SlabAllocator::allocate that grows into the first slot only.
SlabAllocator_allocate_single_slab(a, h, k, grant, w) ==
    LET r == pass1(a, h)
    IN  IF r.ret # NULL
        THEN [ret |-> r.ret, allocator |-> r.allocator, heap |-> h, new |-> NULL,
              asked |-> FALSE]
        ELSE IF a.slabs[0] # None
        THEN [ret |-> NULL, allocator |-> a, heap |-> h, new |-> NULL, asked |-> FALSE]
        ELSE pass2(a, h, k, grant, w)

SlabAllocator_allocate(a, h, k, grant, w) ==
    LET r == pass1(a, h)
    IN  IF r.ret # NULL
        THEN [ret |-> r.ret, allocator |-> r.allocator, heap |-> h, new |-> NULL,
              asked |-> FALSE]
        ELSE pass2(a, h, k, grant, w)

\* SlabAllocator::deallocate that falls back to the last slab there is when no
\* slab contains ptr.
SlabAllocator_deallocate_fallback(a, h, ptr) ==
    LET owners == {i \in Slots : a.slabs[i] # None /\ contains(a.slabs[i], ptr)}
        any == {i \in Slots : a.slabs[i] # None}
        to == IF owners # {} THEN owners ELSE any
    IN  IF to = {} THEN [allocator |-> a, heap |-> h]
        ELSE LET i == IF owners # {} THEN SetMin(to)
                      ELSE CHOOSE x \in to : \A y \in to : x >= y
                 r == Slab_deallocate(a.slabs[i], h, ptr)
             IN  [allocator |-> [a EXCEPT !.slabs[i] = r.slab], heap |-> r.heap]

\* SlabAllocator::deallocate that clears the slot of a slab it has emptied.
SlabAllocator_deallocate_shrinks(a, h, ptr) ==
    LET owners == {i \in Slots : a.slabs[i] # None /\ contains(a.slabs[i], ptr)}
    IN  IF owners = {} THEN [allocator |-> a, heap |-> h]
        ELSE LET i == SetMin(owners)
                 r == Slab_deallocate(a.slabs[i], h, ptr)
             IN  [allocator |-> [a EXCEPT !.slabs[i] =
                                    IF is_empty(r.slab) THEN None ELSE r.slab],
                  heap |-> r.heap]

\* SlabAllocator::deallocate that gives ptr to the first slab there is.
SlabAllocator_deallocate_first_slab(a, h, ptr) ==
    LET owners == {i \in Slots : a.slabs[i] # None}
    IN  IF owners = {} THEN [allocator |-> a, heap |-> h]
        ELSE LET i == SetMin(owners)
                 r == Slab_deallocate(a.slabs[i], h, ptr)
             IN  [allocator |-> [a EXCEPT !.slabs[i] = r.slab], heap |-> r.heap]

\* SlabAllocator::deallocate: the first slot, in slot order, whose slab
\* contains ptr takes it back; no slot, no effect.
SlabAllocator_deallocate(a, h, ptr) ==
    LET owners == {i \in Slots : a.slabs[i] # None /\ contains(a.slabs[i], ptr)}
    IN  IF owners = {} THEN [allocator |-> a, heap |-> h]
        ELSE LET i == SetMin(owners)
                 r == Slab_deallocate(a.slabs[i], h, ptr)
             IN  [allocator |-> [a EXCEPT !.slabs[i] = r.slab], heap |-> r.heap]

\* Dropping a SlabAllocator drops its array, so every slab it holds: their
\* blocks go back to the provider, their words are gone.
SlabAllocator_drop(a, h) ==
    [x \in {y \in DOMAIN h : \A i \in Slots :
                a.slabs[i] = None \/ ~contains(a.slabs[i], y)} |-> h[x]]

\* The same drop, at the provider: Drop for Slab runs for the slabs of slots
\* i, i + 1, ... in turn.
RECURSIVE SlabAllocator_drop_dealloc(_, _, _, _)
SlabAllocator_drop_dealloc(a, bs, w, i) ==
    IF i = NUM_SLABS THEN {bs}
    ELSE IF a.slabs[i] = None THEN SlabAllocator_drop_dealloc(a, bs, w, i + 1)
    ELSE UNION {SlabAllocator_drop_dealloc(a, b, w, i + 1) :
                    b \in Slab_drop_dealloc(a.slabs[i], bs, w)}

\* ---------------------------------------------------------------- SlabCache

SlabCache_new ==
    [small |-> SlabAllocator_new(SMALL_SIZE),
     medium |-> SlabAllocator_new(MEDIUM_SIZE),
     large |-> SlabAllocator_new(LARGE_SIZE)]

\* The if-chain with the first bound exclusive.
size_class_exclusive(size) ==
    IF size < 64 THEN "small"
    ELSE IF size <= 256 THEN "medium"
    ELSE IF size <= 512 THEN "large"
    ELSE "none"

\* The branch the if-chain on layout.size() takes.
size_class(size) ==
    IF size <= 64 THEN "small"
    ELSE IF size <= 256 THEN "medium"
    ELSE IF size <= 512 THEN "large"
    ELSE "none"

SlabCache_allocate(c, h, size, k, grant, w) ==
    LET cls == size_class(size)
    IN  IF cls = "none"
        THEN [ret |-> NULL, cache |-> c, heap |-> h, new |-> NULL, asked |-> FALSE]
        ELSE LET r == SlabAllocator_allocate(c[cls], h, k, grant, w)
             IN  [ret |-> r.ret, cache |-> [c EXCEPT ![cls] = r.allocator],
                  heap |-> r.heap, new |-> r.new, asked |-> r.asked]

\* SlabCache::deallocate that always gives the pointer to the small allocator.
SlabCache_deallocate_small_only(c, h, ptr, size) ==
    LET r == SlabAllocator_deallocate(c.small, h, ptr)
    IN  [cache |-> [c EXCEPT !.small = r.allocator], heap |-> r.heap]

\* SlabCache::deallocate that asks every class, whatever the size.
SlabCache_deallocate_any_class(c, h, ptr, size) ==
    LET r1 == SlabAllocator_deallocate(c.small, h, ptr)
        r2 == SlabAllocator_deallocate(c.medium, r1.heap, ptr)
        r3 == SlabAllocator_deallocate(c.large, r2.heap, ptr)
    IN  [cache |-> [small |-> r1.allocator, medium |-> r2.allocator,
                    large |-> r3.allocator],
         heap |-> r3.heap]

SlabCache_deallocate(c, h, ptr, size) ==
    LET cls == size_class(size)
    IN  IF cls = "none" THEN [cache |-> c, heap |-> h]
        ELSE LET r == SlabAllocator_deallocate(c[cls], h, ptr)
             IN  [cache |-> [c EXCEPT ![cls] = r.allocator], heap |-> r.heap]

\* ---------------------------------------------------------------- callers

\* A call: its name, the size and the pointer given to it, and whether that
\* pointer is the one the call before it returned.
Call(name, size, ptr) ==
    [name |-> name, size |-> size, ptr |-> ptr, just |-> ptr # NULL /\ ptr = ret]

Reserve(new) == IF new = NULL THEN blocks ELSE blocks \cup {new}

\* Layout sizes the callers of the cache ask for.
CacheSizes == {64, 65, 256, 257, 512, 513}

\* The size class a layout size belongs to (<= 64, <= 256, <= 512), which the
\* caller contract of SlabCache::deallocate requires the caller to keep.
Tier(size) ==
    IF size <= SMALL_SIZE THEN "small"
    ELSE IF size <= MEDIUM_SIZE THEN "medium"
    ELSE IF size <= LARGE_SIZE THEN "large"
    ELSE "none"

\* What the caller holds after a call that returned r for `owner`.
Take(r, owner) == IF r = NULL THEN held ELSE held \cup {[ptr |-> r, owner |-> owner]}

Count(r) == IF r = NULL THEN live ELSE live + 1

\* The heap once the caller owns the slot at r: its bytes are the caller's
\* data, the word there is a FreeNode no longer.
Owned(h, r) == [a \in DOMAIN h \ {r} |-> h[a]]

\* let slab = Slab::new(size)
SlabNew(size) ==
    /\ slab = None
    /\ \E grant \in Grants(provider, blocks) :
        \E r \in {Slab_new(size, grant, heap, word)} :
            /\ slab' = r.slab
            /\ heap' = r.heap
            /\ blocks' = Reserve(r.slab.memory)
            /\ ret' = r.slab.memory
    /\ released' = <<>>
    /\ op' = Call("Slab::new", size, NULL)
    /\ UNCHANGED <<word, provider, allocator, cache, held, live>>

\* What a read of the next field at address a may find when a is no free-list
\* node of the heap (the slot is the caller's, or a is no slot at all): the
\* caller's bytes, among them None, a itself, the base of the block and an
\* address outside it.
Stray(s, a) == {NULL, a, s.memory, 8}

\* The values node.as_ref().next may yield at address a.
Load(s, h, a) ==
    IF a = NULL THEN {NULL}
    ELSE IF a \in DOMAIN h THEN {h[a]}
    ELSE Stray(s, a)

\* The heap as a read that finds v at address a sees it.
Seen(h, a, v) == IF a = NULL \/ a \in DOMAIN h THEN h ELSE (a :> v) @@ h

\* slab.allocate()
SlabAllocate ==
    /\ slab # None
    /\ \E v \in Load(slab, heap, slab.free_list) :
        \E r \in {Slab_allocate(slab, Seen(heap, slab.free_list, v))} :
           /\ slab' = r.slab
           /\ ret' = r.ret
           /\ heap' = Owned(heap, r.ret)
           /\ held' = Take(r.ret, "slab")
           /\ live' = Count(r.ret)
    /\ released' = IF released = <<>> THEN released ELSE Tail(released)
    /\ op' = Call("Slab::allocate", 0, NULL)
    /\ UNCHANGED <<word, provider, blocks, allocator, cache>>

\* slab.deallocate(ptr) for a pointer the slab returned and the caller holds
SlabDeallocate(e) ==
    /\ slab # None
    /\ e \in held
    /\ e.owner = "slab"
    /\ \E r \in {Slab_deallocate(slab, heap, e.ptr)} :
           /\ slab' = r.slab
           /\ heap' = r.heap
    /\ held' = held \ {e}
    /\ live' = live - 1
    /\ ret' = NULL
    /\ released' = <<e.ptr>> \o released
    /\ op' = Call("Slab::deallocate", 0, e.ptr)
    /\ UNCHANGED <<word, provider, blocks, allocator, cache>>

\* The elements of sequence q.
Range(q) == {q[i] : i \in 1..Len(q)}

\* slab.deallocate(ptr) for a pointer the caller has given back already and
\* does not hold: a double free, against the contract of Slab::deallocate
SlabDeallocateAgain(ptr) ==
    /\ slab # None
    /\ ptr \in Range(released)
    /\ ptr \notin {e.ptr : e \in held}
    /\ \E r \in {Slab_deallocate(slab, heap, ptr)} :
           /\ slab' = r.slab
           /\ heap' = r.heap
    /\ ret' = NULL
    /\ released' = <<ptr>> \o released
    /\ op' = Call("Slab::deallocate", 0, ptr)
    /\ UNCHANGED <<word, provider, blocks, allocator, cache, held, live>>

\* drop(slab), once the caller has given back what it held
SlabDrop ==
    /\ slab # None
    /\ held = {}
    /\ heap' = Slab_drop(slab, heap)
    /\ blocks' \in Slab_drop_dealloc(slab, blocks, word)
    /\ slab' = None
    /\ ret' = NULL
    /\ released' = <<>>
    /\ op' = Call("Slab::drop", 0, NULL)
    /\ UNCHANGED <<word, provider, allocator, cache, held, live>>

\* Addresses a caller may ask slab.contains about: around both ends of the
\* block and of its slots, inside a slot, and what it holds.
Probes(s) ==
    LET used == s.capacity * s.object_size
    IN  {s.memory - 1, s.memory, s.memory + 1, s.memory + s.object_size,
         s.memory + used - 1, s.memory + used, s.memory + SLAB_SIZE - 1,
         s.memory + SLAB_SIZE, s.memory + SLAB_SIZE + 1} \cup {e.ptr : e \in held}

\* slab.contains(ptr)
SlabContains(ptr) ==
    /\ slab # None
    /\ ret' = IF contains(slab, ptr) THEN 1 ELSE 0
    /\ op' = Call("Slab::contains", 0, ptr)
    /\ UNCHANGED <<word, provider, blocks, heap, slab, allocator, cache, held, live,
                   released>>

\* allocator.allocate()
PoolAllocate ==
    \E ans \in Answers(provider, blocks,
            SlabAllocator_allocate(allocator, heap, 0, NULL, word).asked) :
        \E r \in {SlabAllocator_allocate(allocator, heap, ans[1], ans[2], word)} :
            /\ allocator' = r.allocator
            /\ heap' = Owned(r.heap, r.ret)
            /\ blocks' = Reserve(r.new)
            /\ ret' = r.ret
            /\ held' = Take(r.ret, "allocator")
            /\ live' = Count(r.ret)
            /\ op' = Call("SlabAllocator::allocate", 0, NULL)
            /\ UNCHANGED <<word, provider, slab, cache, released>>

\* allocator.deallocate(ptr) for a pointer the allocator returned and the caller holds
PoolDeallocate(e) ==
    /\ e \in held
    /\ e.owner = "allocator"
    /\ \E r \in {SlabAllocator_deallocate(allocator, heap, e.ptr)} :
           /\ allocator' = r.allocator
           /\ heap' = r.heap
    /\ held' = held \ {e}
    /\ live' = live - 1
    /\ ret' = NULL
    /\ op' = Call("SlabAllocator::deallocate", 0, e.ptr)
    /\ UNCHANGED <<word, provider, blocks, slab, cache, released>>

\* ptr lies in the block of no slab of allocator a.
Foreign(a, ptr) ==
    ~\E i \in Slots :
        /\ a.slabs[i].memory # NULL
        /\ a.slabs[i].memory <= ptr
        /\ ptr < a.slabs[i].memory + SLAB_SIZE

\* Addresses that are none of the allocator's a caller may still pass to it:
\* a low one, and those next to both ends of the blocks of its slabs.
ForeignProbes(a) ==
    {ptr \in {8} \cup UNION {{a.slabs[i].memory - 8, a.slabs[i].memory - 1,
                               a.slabs[i].memory + SLAB_SIZE} : i \in Slots} :
        ptr > NULL /\ Foreign(a, ptr)}

\* allocator.deallocate(ptr) for a pointer that is none of the allocator's
PoolDeallocateForeign(ptr) ==
    /\ Foreign(allocator, ptr)
    /\ \E r \in {SlabAllocator_deallocate(allocator, heap, ptr)} :
           /\ allocator' = r.allocator
           /\ heap' = r.heap
    /\ ret' = NULL
    /\ op' = Call("SlabAllocator::deallocate", 0, ptr)
    /\ UNCHANGED <<word, provider, blocks, slab, cache, held, live, released>>

\* drop(allocator), once the caller has given back what it held; a new
\* allocator of the same object size takes its place
PoolDrop ==
    /\ held = {}
    /\ heap' = SlabAllocator_drop(allocator, heap)
    /\ blocks' \in SlabAllocator_drop_dealloc(allocator, blocks, word, 0)
    /\ allocator' = SlabAllocator_new(allocator.object_size)
    /\ ret' = NULL
    /\ op' = Call("SlabAllocator::drop", 0, NULL)
    /\ UNCHANGED <<word, provider, slab, cache, held, live, released>>

\* cache.allocate(layout) with layout.size() = size
CacheAllocate(size) ==
    \E ans \in Answers(provider, blocks,
            SlabCache_allocate(cache, heap, size, 0, NULL, word).asked) :
        \E r \in {SlabCache_allocate(cache, heap, size, ans[1], ans[2], word)} :
            /\ cache' = r.cache
            /\ heap' = Owned(r.heap, r.ret)
            /\ blocks' = Reserve(r.new)
            /\ ret' = r.ret
            /\ held' = Take(r.ret, Tier(size))
            /\ live' = Count(r.ret)
            /\ op' = Call("SlabCache::allocate", size, NULL)
            /\ UNCHANGED <<word, provider, slab, allocator, released>>

\* cache.deallocate(ptr, layout) for a pointer the cache returned and the caller
\* holds, given back with a size of the class it was asked with
CacheDeallocate(e, size) ==
    /\ e \in held
    /\ e.owner = Tier(size)
    /\ \E r \in {SlabCache_deallocate(cache, heap, e.ptr, size)} :
           /\ cache' = r.cache
           /\ heap' = r.heap
    /\ held' = held \ {e}
    /\ live' = live - 1
    /\ ret' = NULL
    /\ op' = Call("SlabCache::deallocate", size, e.ptr)
    /\ UNCHANGED <<word, provider, blocks, slab, allocator, released>>

\* cache.deallocate(ptr, layout) for a pointer the cache returned and the caller
\* holds, given back with a size of another class than it was asked with,
\* against the caller contract: the caller keeps no usable pointer, the cache
\* still counts the slot
CacheDeallocateWrong(e, size) ==
    /\ e \in held
    /\ e.owner # Tier(size)
    /\ \E r \in {SlabCache_deallocate(cache, heap, e.ptr, size)} :
           /\ cache' = r.cache
           /\ heap' = r.heap
    /\ ret' = NULL
    /\ op' = Call("SlabCache::deallocate", size, e.ptr)
    /\ UNCHANGED <<word, provider, blocks, slab, allocator, held, live, released>>

\* ---------------------------------------------------------------- specifications

\* Bases of an arena of adjacent frames of SLAB_SIZE bytes, each also
\* displaced by the bytes of ds.
Arena(frames, ds) == {f * SLAB_SIZE + d : f \in frames, d \in {0} \cup ds}

InitWith(w, p, a, n) ==
    /\ word = w
    /\ provider = p
    /\ blocks = {}
    /\ heap = [x \in {} |-> NULL]
    /\ slab = None
    /\ allocator = a
    /\ cache = SlabCache_new
    /\ held = {}
    /\ live = 0
    /\ released = <<>>
    /\ budget = n
    /\ op = [name |-> "init", size |-> 0, ptr |-> NULL, just |-> FALSE]
    /\ ret = NULL

\* The provider of the bounded specifications: it answers as it likes, with any
\* free frame or with null.
AnyProvider == [arena |-> Arena({1, 2}, {}), lowest |-> FALSE, reliable |-> FALSE]

Room == Cardinality(held) < MaxHeld

\* A SlabCache used under the caller contract. align_size leaves the object
\* sizes of its classes (64, 256, 512) as they are for either pointer width, so
\* the width does not show in the cache: the 64-bit one is taken.
Init == InitWith(8, AnyProvider, SlabAllocator_new(0), 0)

Next ==
    \/ \E size \in CacheSizes : Room /\ CacheAllocate(size) /\ UNCHANGED budget
    \/ \E e \in held, size \in CacheSizes : CacheDeallocate(e, size) /\ UNCHANGED budget

Spec == Init /\ [][Next]_vars

\* A Slab used under the caller contract.
SlabSizes == {0, 1, 17, 64, 512, 513}

NextSlab ==
    \/ \E size \in SlabSizes : SlabNew(size) /\ UNCHANGED budget
    \/ Room /\ SlabAllocate /\ UNCHANGED budget
    \/ \E e \in held : SlabDeallocate(e) /\ UNCHANGED budget
    \/ SlabDrop /\ UNCHANGED budget
    \/ \E ptr \in Probes(slab) : SlabContains(ptr) /\ UNCHANGED budget

\* Its provider hands out frames and frames displaced by one word.
SlabProvider(w) == [arena |-> Arena({1, 2}, {w}), lowest |-> FALSE, reliable |-> FALSE]

InitSlab == \E w \in WordSizes : InitWith(w, SlabProvider(w), SlabAllocator_new(0), 0)

SpecSlab == InitSlab /\ [][NextSlab]_vars

\* A provider that always grants: the frame, or the frame displaced by one
\* word, the alignment allocate_memory asks for.
FillProvider(w) == [arena |-> Arena({1}, {w}), lowest |-> FALSE, reliable |-> TRUE]

\* Slab::new for every requested size up to MaxSize, on a provider that grants.
InitNew == \E w \in WordSizes : InitWith(w, FillProvider(w), SlabAllocator_new(0), 0)

NextNew ==
    \/ \E size \in 0..MaxSize : SlabNew(size) /\ UNCHANGED budget
    \/ SlabDrop /\ UNCHANGED budget

SpecNew == InitNew /\ [][NextNew]_vars

\* A fresh Slab filled to capacity, as test_slab_full does: allocate until it
\* fails, then release the lowest or the highest pointer held and go on.
FillSizes == {1, 17, 64, 100, 512}

\* The entries of the lowest and of the highest address among S.
Ends(S) == {e \in S : (\A f \in S : e.ptr <= f.ptr) \/ (\A f \in S : e.ptr >= f.ptr)}

InitFill == \E w \in WordSizes : InitWith(w, FillProvider(w), SlabAllocator_new(0), MaxFrees)

NextFill ==
    \/ \E size \in FillSizes : SlabNew(size) /\ UNCHANGED budget
    \/ SlabAllocate /\ UNCHANGED budget
    \/ /\ budget > 0
       /\ op.name = "Slab::allocate" /\ ret = NULL
       /\ \E e \in Ends(held) : SlabDeallocate(e)
       /\ budget' = budget - 1

SpecFill == InitFill /\ [][NextFill]_vars

\* A SlabAllocator driven to its ceiling on a provider that never refuses: of
\* any object size, valid or not; it may give back the lowest or the highest
\* pointer it holds, MaxFrees times in all.
CeilSizes == {0, 256, 512, 513}

CeilProvider == [arena |-> Arena(1..(NUM_SLABS + 1), {}), lowest |-> TRUE, reliable |-> TRUE]

InitCeil ==
    \E w \in WordSizes, size \in CeilSizes :
        InitWith(w, CeilProvider, SlabAllocator_new(size), MaxFrees)

NextCeil ==
    \/ PoolAllocate /\ UNCHANGED budget
    \/ /\ budget > 0
       /\ \E e \in Ends(held) : PoolDeallocate(e)
       /\ budget' = budget - 1

SpecCeil == InitCeil /\ [][NextCeil]_vars

\* test_allocator_multiple_slabs: SlabAllocator::new(64), Requests calls of
\* allocate, then every pointer returned is given back, lowest address first.
Requests == 200

Successes == 100

DriveProvider == [arena |-> Arena({1, 2, 3, 5}, {}), lowest |-> FALSE, reliable |-> TRUE]

Lowest(S) == {e \in S : \A f \in S : e.ptr <= f.ptr}

InitDrive ==
    \E w \in WordSizes : InitWith(w, DriveProvider, SlabAllocator_new(SMALL_SIZE), Requests)

NextDrive ==
    \/ /\ budget > 0
       /\ PoolAllocate
       /\ budget' = budget - 1
    \/ /\ budget = 0
       /\ \E e \in Lowest(held) : PoolDeallocate(e)
       /\ UNCHANGED budget

SpecDrive == InitDrive /\ [][NextDrive]_vars

\* A SlabAllocator on a provider that answers as it likes out of three frames:
\* the caller allocates, gives back the lowest or the highest pointer it holds
\* (MaxFrees times in all), passes pointers that are not the allocator's, and
\* drops the allocator.
PoolSizes == {0, 512, 513}

PoolProvider == [arena |-> Arena({1, 2, 3}, {}), lowest |-> FALSE, reliable |-> FALSE]

InitPool ==
    \E w \in WordSizes, size \in PoolSizes :
        InitWith(w, PoolProvider, SlabAllocator_new(size), MaxFrees)

NextPool ==
    \/ PoolAllocate /\ UNCHANGED budget
    \/ /\ budget > 0
       /\ \E e \in Ends(held) : PoolDeallocate(e)
       /\ budget' = budget - 1
    \/ \E ptr \in ForeignProbes(allocator) : PoolDeallocateForeign(ptr) /\ UNCHANGED budget
    \/ PoolDrop /\ UNCHANGED budget

SpecPool == InitPool /\ [][NextPool]_vars

\* The ways an allocate fails, at the three levels: a program uses a Slab, a
\* SlabAllocator or the SlabCache, on a provider that never refuses or on one
\* that answers as it likes out of two frames, and allocates until it fails;
\* from the Slab and the SlabAllocator it gives back the lowest or the highest
\* pointer it holds, MaxFrees times in all.
FailSizes == {0, 512, 513}

FailProviders ==
    {CeilProvider, [arena |-> Arena({1, 2}, {}), lowest |-> TRUE, reliable |-> FALSE]}

InitFail ==
    \E w \in WordSizes, p \in FailProviders, size \in FailSizes :
        InitWith(w, p, SlabAllocator_new(size), MaxFrees)

\* The program uses the Slab, the SlabAllocator, the SlabCache only.
OnSlab == Occupied(allocator) = {} /\ cache = SlabCache_new

OnPool == slab = None /\ cache = SlabCache_new

OnCache == slab = None /\ Occupied(allocator) = {}

NextFail ==
    \/ \E size \in FailSizes : OnSlab /\ SlabNew(size) /\ UNCHANGED budget
    \/ OnSlab /\ SlabAllocate /\ UNCHANGED budget
    \/ /\ budget > 0
       /\ \E e \in Ends(held) : SlabDeallocate(e)
       /\ budget' = budget - 1
    \/ OnPool /\ PoolAllocate /\ UNCHANGED budget
    \/ /\ budget > 0
       /\ \E e \in Ends(held) : PoolDeallocate(e)
       /\ budget' = budget - 1
    \/ \E size \in CacheSizes : OnCache /\ Room /\ CacheAllocate(size) /\ UNCHANGED budget

SpecFail == InitFail /\ [][NextFail]_vars

\* A Slab whose caller breaks the contract of deallocate: it may give a pointer
\* back a second time. MaxFrees deallocate calls in all; allocate is called
\* until the count has passed the capacity.
DoubleSizes == {256, 512}

InitDouble ==
    \E w \in WordSizes : InitWith(w, FillProvider(w), SlabAllocator_new(0), MaxFrees)

NextDouble ==
    \/ \E size \in DoubleSizes : SlabNew(size) /\ UNCHANGED budget
    \/ slab.allocated <= slab.capacity /\ SlabAllocate /\ UNCHANGED budget
    \/ /\ budget > 0
       /\ \E e \in Ends(held) : SlabDeallocate(e)
       /\ budget' = budget - 1
    \/ /\ budget > 0
       /\ \E ptr \in Range(released) : SlabDeallocateAgain(ptr)
       /\ budget' = budget - 1

SpecDouble == InitDouble /\ [][NextDouble]_vars

\* A SlabCache whose caller may give a pointer back with a size of the wrong
\* class.
NextWrong ==
    \/ Next
    \/ \E e \in held, size \in CacheSizes : CacheDeallocateWrong(e, size) /\ UNCHANGED budget

\* Its provider hands out the lower of two frames while it has one: the block
\* of the class made second lies right above the block of the class made first.
WrongProvider == [arena |-> Arena({1, 2}, {}), lowest |-> TRUE, reliable |-> TRUE]

InitWrong == InitWith(8, WrongProvider, SlabAllocator_new(0), 0)

SpecWrong == InitWrong /\ [][NextWrong]_vars

\* A Slab and a SlabAllocator of one program, on a provider that answers as it
\* likes out of three frames: the program makes and drops the Slab, takes a slot
\* of it and gives it back, allocates from the SlabAllocator, gives back the
\* highest pointer it holds of it, and drops it once it holds nothing.
BalanceSizes == {0, 512, 513}

Highest(S) == {e \in S : \A f \in S : e.ptr >= f.ptr}

InitBalance ==
    \E w \in WordSizes : InitWith(w, PoolProvider, SlabAllocator_new(LARGE_SIZE), 0)

NextBalance ==
    \/ \E size \in BalanceSizes : SlabNew(size) /\ UNCHANGED budget
    \/ (\A e \in held : e.owner # "slab") /\ SlabAllocate /\ UNCHANGED budget
    \/ \E e \in held : SlabDeallocate(e) /\ UNCHANGED budget
    \/ SlabDrop /\ UNCHANGED budget
    \/ PoolAllocate /\ UNCHANGED budget
    \/ \E e \in Highest({f \in held : f.owner = "allocator"}) :
            PoolDeallocate(e) /\ UNCHANGED budget
    \/ PoolDrop /\ UNCHANGED budget

SpecBalance == InitBalance /\ [][NextBalance]_vars

\* ---------------------------------------------------------------- properties

\* The addresses the caller holds.
HeldPtrs == {e.ptr : e \in held}

\* p is the address of a slot of a slab of allocator a.
Issues(a, p) ==
    \E i \in Slots :
        LET s == a.slabs[i]
        IN  /\ s.memory # NULL
            /\ s.memory <= p
            /\ p < s.memory + s.capacity * s.object_size
            /\ (p - s.memory) % s.object_size = 0

\* C1: under the caller contract no address is held by two callers at once:
\* every pointer handed out and not yet released is a distinct address, so
\* allocate never returns an address that is still held.
C1_NoDoubleHolding == Cardinality(HeldPtrs) = live

\* C1 witness: an allocate has just returned a slot that was released before
\* (it lies below a slot of the same slab that is still held).
C1_Witness ==
    /\ op.name = "SlabCache::allocate"
    /\ ret # NULL
    /\ \E e \in held, f \in held :
          e.ptr = ret /\ f.owner = e.owner /\ ret < f.ptr /\ f.ptr < ret + SLAB_SIZE

\* C2: SlabCache::allocate routes by the size alone: size <= 64 is served by
\* the small allocator, 64 < size <= 256 by the medium one, 256 < size <= 512
\* by the large one, leaving the other allocators as they were; a size > 512
\* fails and changes nothing, whatever the state of the cache.
C2_RoutesBySize ==
    [][op'.name = "SlabCache::allocate" =>
        LET size == op'.size
        IN  /\ size <= 64 =>
                /\ cache'.medium = cache.medium /\ cache'.large = cache.large
                /\ ret' # NULL => Issues(cache'.small, ret') /\ cache'.small # cache.small
            /\ 64 < size /\ size <= 256 =>
                /\ cache'.small = cache.small /\ cache'.large = cache.large
                /\ ret' # NULL => Issues(cache'.medium, ret') /\ cache'.medium # cache.medium
            /\ 256 < size /\ size <= 512 =>
                /\ cache'.small = cache.small /\ cache'.medium = cache.medium
                /\ ret' # NULL => Issues(cache'.large, ret') /\ cache'.large # cache.large
            /\ size > 512 =>
                ret' = NULL /\ cache' = cache /\ heap' = heap /\ blocks' = blocks
    ]_vars

\* C2 witness: a request of 65 bytes has been served by the medium allocator
\* while the small allocator holds a slab with room.
C2_Witness ==
    /\ op.name = "SlabCache::allocate"
    /\ op.size = 65
    /\ ret # NULL
    /\ Issues(cache.medium, ret)
    /\ \E i \in Slots : cache.small.slabs[i].memory # NULL

\* C3: allocating repeatedly from a freshly constructed Slab, with no
\* deallocation in between, returns pairwise distinct addresses at least
\* object_size apart, each slot inside the block; allocate fails only once
\* capacity addresses are out, the slab is then full, and no further address
\* is returned.
C3_FreshFill ==
    (slab # None /\ budget = MaxFrees) =>
        /\ Cardinality(HeldPtrs) = live
        /\ live <= slab.capacity
        /\ slab.allocated = live
        /\ \A p \in HeldPtrs :
              slab.memory <= p /\ p + slab.object_size <= slab.memory + SLAB_SIZE
        /\ (op.name = "Slab::allocate" /\ ret # NULL) =>
              /\ ret \in HeldPtrs
              /\ \A q \in HeldPtrs \ {ret} :
                    ret - q >= slab.object_size \/ q - ret >= slab.object_size
        /\ (op.name = "Slab::allocate" /\ ret = NULL) => live = slab.capacity
        /\ live = slab.capacity => slab.allocated = slab.capacity

\* C3 witness: a fresh slab of 170 slots (requested size 17) has handed out
\* all of them and the allocate after that has failed.
C3_Witness ==
    /\ op.name = "Slab::allocate"
    /\ ret = NULL
    /\ budget = MaxFrees
    /\ slab.object_size = 24
    /\ live = 170

\* C4: LIFO reuse: slab.allocate() hands back the slot released last among
\* those released and not handed out again; in particular deallocate(p)
\* immediately followed by allocate() returns p.
C4_LifoReuse ==
    [][(op'.name = "Slab::allocate" /\ released # <<>>) =>
          /\ ret' = Head(released)
          /\ op.name = "Slab::deallocate" => ret' = op.ptr
    ]_vars

\* C4 witness: two slots were released one after the other and an allocate
\* has handed back the second one, the first is still to come.
C4_Witness ==
    /\ op.name = "Slab::allocate"
    /\ ret # NULL
    /\ Len(released) = 1
    /\ released[1] # ret
    /\ live >= 1

\* Every slot of allocator a holds a slab and every one of them is full.
AllFull(a) == \A i \in Slots : a.slabs[i] # None /\ is_full(a.slabs[i])

\* C5 as stated: with a provider that never refuses, allocate fails exactly when
\* all 16 slots hold a slab and every one of them is full, and the pointers
\* handed out and not yet released never exceed 16 x the capacity of one slab.
C5_HardCeiling ==
    [][op'.name = "SlabAllocator::allocate" =>
          /\ (ret' = NULL) <=> AllFull(allocator)
          /\ \A i \in Slots :
                allocator'.slabs[i] # None =>
                    live' <= NUM_SLABS * allocator'.slabs[i].capacity
    ]_vars

\* C5 amended: for a SlabAllocator whose object size is in 1..512, with a
\* provider that never refuses, allocate fails exactly when all 16 slots hold a
\* slab and every one of them is full, and the pointers handed out and not yet
\* released never exceed 16 x the capacity of one slab.
C5_HardCeilingValidSize ==
    [][(/\ op'.name = "SlabAllocator::allocate"
        /\ 1 <= allocator.object_size
        /\ allocator.object_size <= MAX_OBJECT_SIZE) =>
          /\ (ret' = NULL) <=> AllFull(allocator)
          /\ \A i \in Slots :
                allocator'.slabs[i] # None =>
                    live' <= NUM_SLABS * allocator'.slabs[i].capacity
    ]_vars

\* C5 witness: an allocator of 512-byte objects has 16 full slabs, 128 pointers
\* out, for the second time (pointers were given back and handed out again),
\* and allocate has failed.
C5_Witness ==
    /\ op.name = "SlabAllocator::allocate"
    /\ ret = NULL
    /\ allocator.object_size = 512
    /\ AllFull(allocator)
    /\ live = NUM_SLABS * 8
    /\ budget = 0

\* C6: every address returned by an allocate call is a multiple of 8.
C6_MultipleOf8 == \A p \in HeldPtrs : p % 8 = 0

\* C7: Slab::new fails for the sizes 0 and above 512; for every size in 1..512,
\* the provider granting the block, it succeeds with object_size at least the
\* size of a free-list node and the requested size, a multiple of
\* max(8, node alignment), capacity = 4096 / object_size >= 1 and
\* capacity * object_size <= 4096.
C7_SlabNew ==
    op.name = "Slab::new" =>
        /\ (op.size = 0 \/ op.size > 512) => slab = None /\ ret = NULL /\ blocks = {}
        /\ (1 <= op.size /\ op.size <= 512) =>
              /\ slab # None
              /\ slab.memory = ret /\ blocks = {ret}
              /\ slab.object_size >= word
              /\ slab.object_size % (IF word > 8 THEN word ELSE 8) = 0
              /\ slab.object_size >= op.size
              /\ slab.capacity = 4096 \div slab.object_size
              /\ slab.capacity >= 1
              /\ slab.capacity * slab.object_size <= 4096
              /\ slab.allocated = 0

\* C7 witness: Slab::new(17) on a 32-bit target gave slots of 24 bytes, 170 of them.
C7_Witness ==
    /\ op.name = "Slab::new"
    /\ op.size = 17
    /\ word = 4
    /\ slab.object_size = 24
    /\ slab.capacity = 170

\* C8: a fresh SlabAllocator of object size 64 driven through 200 allocation
\* requests spans several slabs and yields at least 100 successes; every
\* pointer it returned lies in the range of exactly one slab, the one that
\* issued it, which is the slab deallocate gives it back to (each slab's count
\* is the number of pointers held from its range); after releasing all of them
\* every slab has allocated = 0.
C8_DriveAndRelease ==
    LET occ == Occupied(allocator)
        range(i) == {e \in held : contains(allocator.slabs[i], e.ptr)}
    IN  /\ \A e \in held :
              /\ Cardinality({i \in occ : contains(allocator.slabs[i], e.ptr)}) = 1
              /\ \E i \in occ :
                    /\ contains(allocator.slabs[i], e.ptr)
                    /\ (e.ptr - allocator.slabs[i].memory) % allocator.slabs[i].object_size = 0
                    /\ e.ptr < allocator.slabs[i].memory
                                + allocator.slabs[i].capacity * allocator.slabs[i].object_size
        /\ \A i \in occ : allocator.slabs[i].allocated = Cardinality(range(i))
        /\ (budget = 0 /\ op.name = "SlabAllocator::allocate") =>
              /\ live >= Successes
              /\ Cardinality(occ) >= 2
        /\ (budget = 0 /\ held = {}) =>
              \A i \in occ : allocator.slabs[i].allocated = 0

\* C8 witness: all 200 requests were made, they filled four slabs, two of them
\* in adjacent blocks, and every pointer has been given back.
C8_Witness ==
    /\ budget = 0
    /\ op.name = "SlabAllocator::deallocate"
    /\ held = {}
    /\ Cardinality(Occupied(allocator)) = 4
    /\ \E i, j \in Slots :
          /\ allocator.slabs[i] # None
          /\ allocator.slabs[j].memory = allocator.slabs[i].memory + SLAB_SIZE
    /\ \A i \in Slots : allocator.slabs[i].allocated = 0

\* The slab of class cls that took the call on pointer p: its allocated count
\* moved by d and no other slab of the class changed.
Moved(cls, p, d) ==
    \E i \in Slots :
        /\ cache'[cls].slabs[i].memory <= p
        /\ p < cache'[cls].slabs[i].memory + SLAB_SIZE
        /\ cache'[cls].slabs[i].allocated = cache[cls].slabs[i].allocated + d
        /\ \A j \in Slots \ {i} : cache'[cls].slabs[j] = cache[cls].slabs[j]

\* C9: SlabCache round trip: a successful allocate(size) raises the allocated
\* count of the slab that serves it by one, deallocate(p, size) under the
\* contract lowers the count of the slab holding p by one (so the pair
\* restores it), and when p is given back right after it was returned, the
\* next allocate of the same size succeeds and returns p again.
C9_RoundTrip ==
    [][/\ (op'.name = "SlabCache::allocate" /\ ret' # NULL) =>
              Moved(Tier(op'.size), ret', 1)
       /\ op'.name = "SlabCache::deallocate" =>
              Moved(Tier(op'.size), op'.ptr, -1)
       /\ (op.name = "SlabCache::deallocate" /\ op.just
              /\ op'.name = "SlabCache::allocate" /\ op'.size = op.size) =>
              ret' = op.ptr
    ]_vars

\* C9 witness: a pointer of the large class was given back right after it was
\* returned, while another pointer of the class is held lower in the slab.
C9_Witness ==
    /\ op.name = "SlabCache::deallocate"
    /\ op.just
    /\ op.size = 512
    /\ \E e \in held : e.owner = "large" /\ e.ptr < op.ptr

\* C10: slab.contains(p) is true exactly for block_base <= p < block_base + 4096.
C10_Contains ==
    op.name = "Slab::contains" =>
        (ret = 1 <=> (slab.memory <= op.ptr /\ op.ptr < slab.memory + 4096))

\* C10 witness: contains answered true for an address in the unused tail of the
\* block, past capacity * object_size.
C10_Witness ==
    /\ op.name = "Slab::contains"
    /\ ret = 1
    /\ op.ptr >= slab.memory + slab.capacity * slab.object_size
    /\ (op.ptr - slab.memory) % slab.object_size # 0

\* C11: SlabAllocator::deallocate(p) with a pointer that lies in the block of
\* no existing slab is a silent no-op: nothing comes back from it, and every
\* slab's free list and allocated count, the occupied slots, the heap and the
\* blocks reserved are as before.
C11_ForeignNoOp ==
    [][(op'.name = "SlabAllocator::deallocate" /\ Foreign(allocator, op'.ptr)) =>
          /\ allocator' = allocator
          /\ heap' = heap
          /\ blocks' = blocks
          /\ held' = held /\ live' = live
          /\ ret' = NULL
    ]_vars

\* C11 witness: the allocator was handed the address right past the block of
\* a slab it has pointers out of.
C11_Witness ==
    /\ op.name = "SlabAllocator::deallocate"
    /\ Foreign(allocator, op.ptr)
    /\ \E i \in Slots :
          /\ allocator.slabs[i] # None
          /\ allocator.slabs[i].allocated > 0
          /\ op.ptr = allocator.slabs[i].memory + SLAB_SIZE

\* The occupied slots of allocator a whose slab is not full.
NotFull(a) == {i \in Occupied(a) : ~is_full(a.slabs[i])}

\* p lies in the block of slab s.
Within(s, p) == s.memory <= p /\ p < s.memory + SLAB_SIZE

\* C13: first-fit: a successful SlabAllocator::allocate is served by the
\* lowest-index existing slab that is not full, every other slot staying as it
\* was; a new slab is constructed only when every existing slab is full (or
\* none exists), a call creates at most one, and that one serves the request.
C13_FirstFit ==
    [][op'.name = "SlabAllocator::allocate" =>
          LET open == NotFull(allocator)
              added == Occupied(allocator') \ Occupied(allocator)
          IN  /\ Cardinality(added) <= 1
              /\ added # {} => open = {} /\ ret' # NULL
              /\ (ret' # NULL /\ open # {}) =>
                    LET i == SetMin(open)
                    IN  /\ Within(allocator.slabs[i], ret')
                        /\ allocator'.slabs[i].allocated = allocator.slabs[i].allocated + 1
                        /\ \A j \in Slots \ {i} : allocator'.slabs[j] = allocator.slabs[j]
              /\ (ret' # NULL /\ open = {}) =>
                    \E i \in added :
                        /\ Within(allocator'.slabs[i], ret')
                        /\ allocator'.slabs[i].allocated = 1
                        /\ \A j \in Slots \ {i} : allocator'.slabs[j] = allocator.slabs[j]
    ]_vars

\* C13 witness: allocate was served by a slab while a slab of a higher slot
\* has room too, and pointers out.
C13_Witness ==
    /\ op.name = "SlabAllocator::allocate"
    /\ ret # NULL
    /\ \E i, j \in Occupied(allocator) :
          /\ i < j
          /\ Within(allocator.slabs[i], ret)
          /\ ~is_full(allocator.slabs[j])
          /\ allocator.slabs[j].allocated > 0

\* C14: no shrink: over the calls of a SlabAllocator (until it is dropped) a
\* slot that holds a slab keeps holding that slab, the same block with the
\* same geometry, also once the slab is empty again; the number of slabs
\* never decreases.
C14_NoShrink ==
    [][op'.name # "SlabAllocator::drop" =>
          /\ \A i \in Occupied(allocator) :
                /\ allocator'.slabs[i].memory = allocator.slabs[i].memory
                /\ allocator'.slabs[i].object_size = allocator.slabs[i].object_size
                /\ allocator'.slabs[i].capacity = allocator.slabs[i].capacity
          /\ Cardinality(Occupied(allocator')) >= Cardinality(Occupied(allocator))
    ]_vars

\* C14 witness: the last pointer out of a slab was given back, the slab is
\* empty and still in its slot, next to another slab.
C14_Witness ==
    /\ op.name = "SlabAllocator::deallocate"
    /\ Cardinality(Occupied(allocator)) >= 2
    /\ \E i \in Occupied(allocator) :
          Within(allocator.slabs[i], op.ptr) /\ is_empty(allocator.slabs[i])

\* C15: slabs populate left-to-right: whatever the provider refuses, the
\* occupied slots are exactly the indices 0..k-1 for some k <= 16.
C15_LeftToRight ==
    \A i \in Occupied(allocator) : \A j \in 0..(i - 1) : j \in Occupied(allocator)

\* The addresses of the slots of slab s.
SlotsOf(s) == {s.memory + i * s.object_size : i \in 0..(s.capacity - 1)}

\* One step along the free list as a function: the next of a node; None and
\* Broken (a next that is no free-list node of the heap) stay where they are.
Broken == 0 - 1

Hop(h) ==
    [a \in DOMAIN h \cup {NULL, Broken} |->
        IF a \notin DOMAIN h THEN a
        ELSE IF h[a] \in DOMAIN h \cup {NULL} THEN h[a] ELSE Broken]

Twice(j) == [a \in DOMAIN j |-> j[j[a]]]

\* The hops of 1, 2, 4, ... steps, up to max steps.
RECURSIVE hops(_, _, _)
hops(j, span, max) ==
    IF span > max THEN <<>>
    ELSE <<[hop |-> j, span |-> span]>> \o hops(Twice(j), 2 * span, max)

\* From node p, the longest walk along the hops js[1..k] that stays on nodes:
\* the node it reaches and the steps it takes.
RECURSIVE walk(_, _, _)
walk(js, p, k) ==
    IF k = 0 THEN [node |-> p, steps |-> 0]
    ELSE LET q == js[k].hop[p]
         IN  IF q \in {NULL, Broken} THEN walk(js, p, k - 1)
             ELSE LET w == walk(js, q, k - 1)
                  IN  [node |-> w.node, steps |-> w.steps + js[k].span]

\* The number of nodes on the free list that starts at head, following next
\* until None; SLAB_SIZE (more than any capacity) when the list is no chain:
\* it runs into itself or leaves the free-list nodes of the heap.
chain_length(h, head) ==
    IF head = NULL THEN 0
    ELSE IF head \notin DOMAIN h THEN SLAB_SIZE
    ELSE LET js == hops(Hop(h), 1, SLAB_SIZE)
             w == walk(js, head, Len(js))
         IN  IF js[1].hop[w.node] = NULL /\ w.steps < SLAB_SIZE
             THEN w.steps + 1 ELSE SLAB_SIZE

\* C12: Slab accounting invariant under the caller contract: 0 <= allocated <=
\* capacity, allocated = capacity - (length of the free-list chain), and the
\* free list is a chain that ends (acyclic, so duplicate-free) and holds
\* exactly the slots not handed out.
C12_Accounting ==
    slab # None =>
        LET length == chain_length(heap, slab.free_list)
        IN  /\ 0 <= slab.allocated /\ slab.allocated <= slab.capacity
            /\ length <= slab.capacity
            /\ slab.allocated = slab.capacity - length
            /\ DOMAIN heap = SlotsOf(slab) \ HeldPtrs
            /\ length = Cardinality(DOMAIN heap)
            /\ slab.allocated = Cardinality(HeldPtrs)

\* C12 witness: a slab of 64 slots was filled twice and a slot has been given
\* back for the second time: one node is on the free list.
C12_Witness ==
    /\ op.name = "Slab::deallocate"
    /\ budget = 0
    /\ slab.capacity = 64
    /\ slab.allocated = 63
    /\ slab.free_list # NULL
    /\ heap[slab.free_list] = NULL

\* C16: address-ascending first pass: on a freshly constructed Slab the head
\* of the free list is slot 0, and with no deallocation in between the k-th
\* allocate (k = 1..capacity) returns block_base + (k-1) x object_size.
C16_AscendingFirstPass ==
    (slab # None /\ budget = MaxFrees) =>
        /\ op.name = "Slab::new" => slab.free_list = slab.memory
        /\ (op.name = "Slab::allocate" /\ ret # NULL) =>
              /\ live <= slab.capacity
              /\ ret = slab.memory + (live - 1) * slab.object_size
        /\ HeldPtrs = {slab.memory + k * slab.object_size : k \in 0..(live - 1)}
        /\ live < slab.capacity => slab.free_list = slab.memory + live * slab.object_size

\* C16 witness: the 170th allocate on a fresh slab of 24-byte slots returned
\* the last slot, block base + 169 x 24.
C16_Witness ==
    /\ op.name = "Slab::allocate"
    /\ budget = MaxFrees
    /\ slab.object_size = 24
    /\ live = slab.capacity
    /\ ret = slab.memory + 169 * 24

\* C17: no partial failure: when Slab::new, Slab::allocate,
\* SlabAllocator::allocate or SlabCache::allocate returns failure (exhausted
\* free list, all 16 slabs full, size > 512, invalid object size, the provider
\* refusing), the state is as before the call: no slab added, no free list or
\* allocated count changed, no pointer handed out, no block left reserved.
C17_NoPartialFailure ==
    [][(/\ op'.name \in {"Slab::new", "Slab::allocate", "SlabAllocator::allocate",
                         "SlabCache::allocate"}
        /\ ret' = NULL) =>
          /\ slab' = slab
          /\ allocator' = allocator
          /\ cache' = cache
          /\ heap' = heap
          /\ blocks' = blocks
          /\ held' = held /\ live' = live
    ]_vars

\* C17 witness: SlabAllocator::allocate has failed because the provider
\* refused, with every slab the allocator has full and slots still empty.
C17_Witness ==
    /\ op.name = "SlabAllocator::allocate"
    /\ ret = NULL
    /\ Occupied(allocator) # {}
    /\ NotFull(allocator) = {}
    /\ ~AllFull(allocator)
    /\ blocks # provider.arena

\* C18: a Slab::deallocate of a pointer that was given back already is not
\* detected: the call returns nothing, allocated goes down by one but not
\* below zero, the slot is pushed again, and the free list of a slab that was
\* sound is from then on no chain of the free slots (it runs into itself).
C18_DoubleFree ==
    [][(op'.name = "Slab::deallocate" /\ op'.ptr \notin HeldPtrs) =>
          /\ ret' = NULL
          /\ slab'.allocated = (IF slab.allocated = 0 THEN 0 ELSE slab.allocated - 1)
          /\ slab'.free_list = op'.ptr
          /\ heap'[op'.ptr] = slab.free_list
          /\ C12_Accounting =>
                /\ chain_length(heap', slab'.free_list) = SLAB_SIZE
                /\ slab'.allocated < Cardinality(HeldPtrs) \/ slab'.allocated = 0
    ]_vars

\* C18 witness: after a double free, allocate has returned an address the
\* caller holds already (handed out twice, no deallocate in between) and
\* allocated has passed the capacity.
C18_Witness ==
    /\ op.name = "Slab::allocate"
    /\ ret # NULL
    /\ live > Cardinality(HeldPtrs)
    /\ slab.allocated > slab.capacity

\* C19: SlabCache.deallocate(p, size) for a pointer p the cache returned, with
\* a size of another class than the one that issued p (a size above 512
\* included), changes no allocator state: no slab of the class searched
\* contains p, no free list and no counter changes, no block is released, and
\* the slot stays allocated in the slab of the class that issued it.
C19_WrongClassNoOp ==
    [][\A e \in held :
          (/\ op'.name = "SlabCache::deallocate"
           /\ op'.ptr = e.ptr
           /\ Tier(op'.size) # e.owner) =>
              /\ cache' = cache
              /\ heap' = heap
              /\ blocks' = blocks
              /\ Tier(op'.size) # "none" =>
                    \A i \in Occupied(cache[Tier(op'.size)]) :
                        ~contains(cache[Tier(op'.size)].slabs[i], e.ptr)
              /\ \E i \in Occupied(cache'[e.owner]) :
                    /\ contains(cache'[e.owner].slabs[i], e.ptr)
                    /\ cache'[e.owner].slabs[i].allocated >= 1
              /\ e.ptr \notin DOMAIN heap'
    ]_vars

\* A pointer of the small class was given back with a size of the medium
\* class, whose slab ends where the block of the pointer begins.
C19_Witness ==
    /\ op.name = "SlabCache::deallocate"
    /\ Tier(op.size) = "medium"
    /\ [ptr |-> op.ptr, owner |-> "small"] \in held
    /\ \E i \in Occupied(cache.medium) :
          cache.medium.slabs[i].memory + SLAB_SIZE = op.ptr

\* The blocks of the live slabs: of the Slab, of the slabs of the SlabAllocator
\* and of those of the classes of the SlabCache.
SlabBlocks ==
    ({slab.memory} \ {NULL})
        \cup {allocator.slabs[i].memory : i \in Occupied(allocator)}
        \cup UNION {{cache[c].slabs[i].memory : i \in Occupied(cache[c])} :
                        c \in {"small", "medium", "large"}}

\* The number of live slabs.
LiveSlabs ==
    (IF slab = None THEN 0 ELSE 1) + Cardinality(Occupied(allocator))
        + Cardinality(Occupied(cache.small)) + Cardinality(Occupied(cache.medium))
        + Cardinality(Occupied(cache.large))

\* C20: provider balance. The blocks reserved from the provider and not yet
\* released are the blocks of the live slabs, one each. A Slab::new that
\* returns None leaves the reserved blocks as they were, and so do
\* Slab::allocate and Slab::deallocate. Dropping a Slab releases its block, which
\* was reserved, and no other; dropping a SlabAllocator releases the block of
\* each of its slabs, all of them reserved, and no other, so that none of them
\* is outstanding afterwards.
C20_ProviderBalance ==
    /\ [](/\ blocks = SlabBlocks
          /\ Cardinality(blocks) = LiveSlabs)
    /\ [][/\ (op'.name = "Slab::new" /\ slab' = None) => blocks' = blocks
          /\ op'.name \in {"Slab::allocate", "Slab::deallocate"} => blocks' = blocks
          /\ op'.name = "Slab::drop" =>
                /\ slab.memory \in blocks
                /\ blocks' = blocks \ {slab.memory}
                /\ drop_layout(word) = allocate_memory_layout(SLAB_SIZE, word)
          /\ op'.name = "SlabAllocator::drop" =>
                /\ \A i \in Occupied(allocator) : allocator.slabs[i].memory \in blocks
                /\ blocks' = blocks \ {allocator.slabs[i].memory : i \in Occupied(allocator)}
                /\ Cardinality(blocks') = Cardinality(blocks) - Cardinality(Occupied(allocator))
                /\ Occupied(allocator') = {}
         ]_vars

\* The SlabAllocator has been dropped on the 32-bit target after the Slab was
\* made: the block of the Slab is the one block still reserved.
C20_Witness ==
    /\ op.name = "SlabAllocator::drop"
    /\ word = 4
    /\ slab # None
    /\ blocks = {slab.memory}

====
